---- MODULE Spec2Model ----
(***************************************************************************)
(* Trace-context propagation of exaring/sentry-go:                         *)
(*   - the Dynamic Sampling Context (DSC): its three constructors and its  *)
(*     serialisation to a baggage header;                                  *)
(*   - the otel continuation middleware ContinueFromOtel with the          *)
(*     process-wide span registry sentrySpanMap.                           *)
(*                                                                         *)
(* A Go string is a sequence of characters; a character is a one-letter    *)
(* TLA+ string, except "SOH", which stands for the control byte 0x01, and  *)
(* "OTHER", which stands for any byte outside the modelled alphabet.       *)
(* A Go pointer is a record with a field nil.  A Go map is a function.     *)
(***************************************************************************)
EXTENDS Integers, Sequences, FiniteSets, TLC

(***************************************************************************)
(* Bounds of the exploration.                                              *)
(***************************************************************************)
\* Members of a generated inbound baggage header.
MaxMembers == 2
\* Local spans the span-starting code registers in one run.
MaxSpans == 2
\* Requests handled concurrently.
MaxRequests == 2

(***************************************************************************)
(* strings                                                                 *)
(***************************************************************************)
sentryPrefix == <<"s", "e", "n", "t", "r", "y", "-">>

HasPrefix(s, p) == Len(s) >= Len(p) /\ SubSeq(s, 1, Len(p)) = p

TrimPrefix(s, p) == IF HasPrefix(s, p) THEN SubSeq(s, Len(p) + 1, Len(s)) ELSE s

\* strconv.FormatBool
FormatBool(b) == IF b THEN <<"t", "r", "u", "e">> ELSE <<"f", "a", "l", "s", "e">>

Digit(n) == <<"0", "1", "2", "3", "4", "5", "6", "7", "8", "9">>[n + 1]

\* strconv.FormatFloat(f, 'f', -1, 64) of a rate given in hundredths
\* (0 <= r < 1000): the shortest decimal that reads back as r / 100,
\* no exponent, no trailing zeros.
FormatFloat(r) ==
    LET ip == r \div 100
        d1 == (r % 100) \div 10
        d2 == r % 10
    IN  IF d1 = 0 /\ d2 = 0 THEN <<Digit(ip)>>
        ELSE IF d2 = 0 THEN <<Digit(ip), ".", Digit(d1)>>
        ELSE <<Digit(ip), ".", Digit(d1), Digit(d2)>>

(***************************************************************************)
(* Baggage codec (package internal/otel/baggage).                          *)
(***************************************************************************)
Whitespace == {" "}

ControlChars == {"SOH"}

HexDigits == {"0", "1", "2", "3", "5", "B", "C", "D"}

\* The characters serialisation percent-encodes, each with its two hex digits.
EscapeTable ==
    [c \in {" ", "%", ",", ";", "=", "SOH"} |->
        CASE c = " " -> <<"2", "0">>
          [] c = "%" -> <<"2", "5">>
          [] c = "," -> <<"2", "C">>
          [] c = ";" -> <<"3", "B">>
          [] c = "=" -> <<"3", "D">>
          [] c = "SOH" -> <<"0", "1">>]

\* The byte two hex digits stand for.
Unescape(h) ==
    IF h = <<"2", "D">> THEN "-"
    ELSE IF \E c \in DOMAIN EscapeTable : EscapeTable[c] = h
         THEN CHOOSE c \in DOMAIN EscapeTable : EscapeTable[c] = h
         ELSE "OTHER"

RECURSIVE PercentEncode(_)
PercentEncode(s) ==
    IF s = <<>> THEN <<>>
    ELSE (IF Head(s) \in DOMAIN EscapeTable
          THEN <<"%">> \o EscapeTable[Head(s)]
          ELSE <<Head(s)>>) \o PercentEncode(Tail(s))

\* [ok, val]: ok is FALSE when a "%" is not followed by two hex digits.
RECURSIVE PercentDecode(_)
PercentDecode(s) ==
    IF s = <<>> THEN [ok |-> TRUE, val |-> <<>>]
    ELSE IF Head(s) # "%"
         THEN LET r == PercentDecode(Tail(s))
              IN  [ok |-> r.ok, val |-> IF r.ok THEN <<Head(s)>> \o r.val ELSE <<>>]
    ELSE IF Len(s) < 3 \/ s[2] \notin HexDigits \/ s[3] \notin HexDigits
         THEN [ok |-> FALSE, val |-> <<>>]
    ELSE LET r == PercentDecode(SubSeq(s, 4, Len(s)))
         IN  [ok |-> r.ok,
              val |-> IF r.ok THEN <<Unescape(<<s[2], s[3]>>)>> \o r.val ELSE <<>>]

RECURSIVE IndexOf(_, _, _)
\* The first position >= i of character c in s, 0 when there is none.
IndexOf(s, c, i) ==
    IF i > Len(s) THEN 0
    ELSE IF s[i] = c THEN i
    ELSE IndexOf(s, c, i + 1)

RECURSIVE SplitOn(_, _)
SplitOn(s, c) ==
    LET i == IndexOf(s, c, 1)
    IN  IF i = 0 THEN <<s>>
        ELSE <<SubSeq(s, 1, i - 1)>> \o SplitOn(SubSeq(s, i + 1, Len(s)), c)

RECURSIVE TrimSpace(_)
TrimSpace(s) ==
    IF s = <<>> THEN s
    ELSE IF Head(s) \in Whitespace THEN TrimSpace(Tail(s))
    ELSE IF s[Len(s)] \in Whitespace THEN TrimSpace(SubSeq(s, 1, Len(s) - 1))
    ELSE s

\* One comma-separated segment of a header: key=value[;properties].
ParseMember(seg) ==
    LET t     == TrimSpace(seg)
        semi  == IndexOf(t, ";", 1)
        kv    == IF semi = 0 THEN t ELSE TrimSpace(SubSeq(t, 1, semi - 1))
        props == IF semi = 0 THEN <<>> ELSE TrimSpace(SubSeq(t, semi + 1, Len(t)))
        eq    == IndexOf(kv, "=", 1)
        k     == PercentDecode(SubSeq(kv, 1, eq - 1))
        v     == PercentDecode(SubSeq(kv, eq + 1, Len(kv)))
    IN  IF eq = 0 THEN [ok |-> FALSE, member |-> <<>>]
        ELSE IF ~k.ok \/ ~v.ok \/ k.val = <<>> THEN [ok |-> FALSE, member |-> <<>>]
        ELSE [ok |-> TRUE,
              member |-> <<[key |-> k.val, value |-> v.val, properties |-> props]>>]

RECURSIVE ParseMembers(_)
ParseMembers(segs) ==
    IF segs = <<>> THEN [ok |-> TRUE, members |-> <<>>]
    ELSE LET m == ParseMember(Head(segs))
             r == ParseMembers(Tail(segs))
         IN  IF m.ok /\ r.ok
             THEN [ok |-> TRUE, members |-> m.member \o r.members]
             ELSE [ok |-> FALSE, members |-> <<>>]

\* baggage.Parse: [ok, members]; the empty header is the empty document.
Parse(raw) ==
    IF raw = <<>> THEN [ok |-> TRUE, members |-> <<>>]
    ELSE ParseMembers(SplitOn(raw, ","))

\* baggage.NewMember: an error for an empty key or a key with a character the
\* wire grammar cannot carry; the value alone never fails.
NewMember(key, value) ==
    IF key = <<>> \/ \E i \in 1..Len(key) : key[i] \in ControlChars
    THEN [ok |-> FALSE, member |-> <<>>]
    ELSE [ok |-> TRUE,
          member |-> <<[key |-> key, value |-> value, properties |-> <<>>]>>]

\* The producer's ceiling on the members of one document.  The limit is
\* producer-defined; it is fixed at 3 here.
maxMembers == 3

\* baggage.New: an error when the document would exceed the ceiling.
New(members) ==
    IF Len(members) > maxMembers THEN [ok |-> FALSE, members |-> <<>>]
    ELSE [ok |-> TRUE, members |-> members]

MemberString(m) ==
    PercentEncode(m.key) \o <<"=">> \o PercentEncode(m.value)
        \o (IF m.properties = <<>> THEN <<>> ELSE <<";">> \o m.properties)

RECURSIVE BaggageString(_)
\* Baggage.String: the members, in the order given, joined with ", ".
BaggageString(members) ==
    IF members = <<>> THEN <<>>
    ELSE IF Len(members) = 1 THEN MemberString(members[1])
    ELSE MemberString(members[1]) \o <<",", " ">> \o BaggageString(Tail(members))

(***************************************************************************)
(* Dynamic Sampling Context.                                               *)
(***************************************************************************)
\* map[string]string{}
EmptyMap == [k \in {} |-> <<>>]

\* m[k] = v
MapSet(m, k, v) == [x \in DOMAIN m \cup {k} |-> IF x = k THEN v ELSE m[x]]

K_trace_id == <<"t", "r", "a", "c", "e", "_", "i", "d">>
K_sample_rate == <<"s", "a", "m", "p", "l", "e", "_", "r", "a", "t", "e">>
K_public_key == <<"p", "u", "b", "l", "i", "c", "_", "k", "e", "y">>
K_release == <<"r", "e", "l", "e", "a", "s", "e">>
K_environment == <<"e", "n", "v", "i", "r", "o", "n", "m", "e", "n", "t">>
K_transaction == <<"t", "r", "a", "n", "s", "a", "c", "t", "i", "o", "n">>
K_sampled == <<"s", "a", "m", "p", "l", "e", "d">>

\* TransactionSource values; the unset source is the empty string.
SourceURL == "url"
SourceCustom == "custom"

\* Sampled values.
SampledFalse == "SampledFalse"
SampledUndefined == "SampledUndefined"
SampledTrue == "SampledTrue"

\* Sampled.Bool
SampledBool(s) == s = SampledTrue

\* A DynamicSamplingContext value.
DSC(entries, frozen) == [Entries |-> entries, Frozen |-> frozen]

RECURSIVE HeaderEntriesNoStrip(_, _)
\* HeaderEntries with the prefix left on the keys it stores.
HeaderEntriesNoStrip(members, entries) ==
    IF members = <<>> THEN entries
    ELSE LET k == Head(members).key
             v == Head(members).value
         IN  HeaderEntriesNoStrip(Tail(members),
                 IF HasPrefix(k, sentryPrefix) THEN MapSet(entries, k, v) ELSE entries)

RECURSIVE HeaderEntries(_, _)
\* The loop over bag.Members(): a later member overwrites an earlier one
\* with the same key.
HeaderEntries(members, entries) ==
    IF members = <<>> THEN entries
    ELSE LET k == Head(members).key
             v == Head(members).value
         IN  HeaderEntries(Tail(members),
                 IF HasPrefix(k, sentryPrefix)
                 THEN MapSet(entries, TrimPrefix(k, sentryPrefix), v)
                 ELSE entries)

\* DynamicSamplingContextFromHeader freezing on any member of the header.
DynamicSamplingContextFromHeaderAnyMember(header) ==
    LET bag == Parse(header)
    IN  IF ~bag.ok THEN [dsc |-> DSC(EmptyMap, FALSE), err |-> TRUE]
        ELSE [dsc |-> DSC(HeaderEntries(bag.members, EmptyMap), Len(bag.members) > 0),
              err |-> FALSE]

\* [dsc, err]; with an error the DSC is the zero value, whose nil map has no
\* entries.
DynamicSamplingContextFromHeader(header) ==
    LET bag == Parse(header)
    IN  IF ~bag.ok THEN [dsc |-> DSC(EmptyMap, FALSE), err |-> TRUE]
        ELSE LET entries == HeaderEntries(bag.members, EmptyMap)
             IN  [dsc |-> DSC(entries, Cardinality(DOMAIN entries) > 0), err |-> FALSE]

\* TransactionName without the test for SourceURL.
TransactionNameSourceSet(span, entries) ==
    IF span.Source # ""
    THEN IF span.isTransaction THEN MapSet(entries, K_transaction, span.Name)
         ELSE entries
    ELSE entries

\* The transaction name is taken only from a good source.
TransactionName(span, entries) ==
    IF span.Source # "" /\ span.Source # SourceURL
    THEN IF span.isTransaction THEN MapSet(entries, K_transaction, span.Name)
         ELSE entries
    ELSE entries

\* DynamicSamplingContextFromTransaction with the release stored under the
\* key of the environment.
DynamicSamplingContextFromTransactionReleaseSlip(span, hub) ==
    LET scope  == hub.scope
        client == hub.client
        e1 == IF span.TraceID # <<>> THEN MapSet(EmptyMap, K_trace_id, span.TraceID)
              ELSE EmptyMap
        e2 == IF span.sampleRate # 0
              THEN MapSet(e1, K_sample_rate, FormatFloat(span.sampleRate))
              ELSE e1
        e3 == IF ~client.dsn.nil /\ client.dsn.publicKey # <<>>
              THEN MapSet(e2, K_public_key, client.dsn.publicKey)
              ELSE e2
        e4 == IF client.Release # <<>>
              THEN MapSet(e3, K_environment, client.Release)
              ELSE e3
        e5 == IF client.Environment # <<>>
              THEN MapSet(e4, K_environment, client.Environment)
              ELSE e4
        e6 == IF span.Source # "" /\ span.Source # SourceURL /\ span.isTransaction
              THEN MapSet(e5, K_transaction, span.Name)
              ELSE e5
        e7 == MapSet(e6, K_sampled, FormatBool(SampledBool(span.Sampled)))
    IN  IF client.nil \/ scope.nil THEN DSC(EmptyMap, FALSE)
        ELSE DSC(e7, TRUE)

\* hub is hubFromContext(span.Context()): its scope and its client.
DynamicSamplingContextFromTransaction(span, hub) ==
    LET scope  == hub.scope
        client == hub.client
        e1 == IF span.TraceID # <<>> THEN MapSet(EmptyMap, K_trace_id, span.TraceID)
              ELSE EmptyMap
        e2 == IF span.sampleRate # 0
              THEN MapSet(e1, K_sample_rate, FormatFloat(span.sampleRate))
              ELSE e1
        e3 == IF ~client.dsn.nil /\ client.dsn.publicKey # <<>>
              THEN MapSet(e2, K_public_key, client.dsn.publicKey)
              ELSE e2
        e4 == IF client.Release # <<>> THEN MapSet(e3, K_release, client.Release) ELSE e3
        e5 == IF client.Environment # <<>>
              THEN MapSet(e4, K_environment, client.Environment)
              ELSE e4
        e6 == TransactionName(span, e5)
        e7 == MapSet(e6, K_sampled, FormatBool(SampledBool(span.Sampled)))
    IN  IF client.nil \/ scope.nil THEN DSC(EmptyMap, FALSE)
        ELSE DSC(e7, TRUE)

\* DynamicSamplingContextFromScope returning early only when both the client
\* and the scope are absent; the fields of an absent one read as zero values.
DynamicSamplingContextFromScopeBothNil(scope, client) ==
    LET e1 == IF scope.TraceID # <<>> THEN MapSet(EmptyMap, K_trace_id, scope.TraceID)
              ELSE EmptyMap
        e2 == IF client.TracesSampleRate # 0
              THEN MapSet(e1, K_sample_rate, FormatFloat(client.TracesSampleRate))
              ELSE e1
    IN  IF client.nil /\ scope.nil THEN DSC(EmptyMap, FALSE)
        ELSE DSC(e2, TRUE)

DynamicSamplingContextFromScope(scope, client) ==
    LET e1 == IF scope.TraceID # <<>> THEN MapSet(EmptyMap, K_trace_id, scope.TraceID)
              ELSE EmptyMap
        e2 == IF client.TracesSampleRate # 0
              THEN MapSet(e1, K_sample_rate, FormatFloat(client.TracesSampleRate))
              ELSE e1
        e3 == IF ~client.dsn.nil /\ client.dsn.publicKey # <<>>
              THEN MapSet(e2, K_public_key, client.dsn.publicKey)
              ELSE e2
        e4 == IF client.Release # <<>> THEN MapSet(e3, K_release, client.Release) ELSE e3
        e5 == IF client.Environment # <<>>
              THEN MapSet(e4, K_environment, client.Environment)
              ELSE e4
    IN  IF client.nil \/ scope.nil THEN DSC(EmptyMap, FALSE)
        ELSE DSC(e5, TRUE)

RECURSIVE StringMembersNoPrefix(_, _)
\* StringMembers with the keys written as they are, without "sentry-".
StringMembersNoPrefix(entries, order) ==
    IF order = <<>> THEN <<>>
    ELSE LET m == NewMember(Head(order), entries[Head(order)])
         IN  (IF m.ok THEN m.member ELSE <<>>)
                 \o StringMembersNoPrefix(entries, Tail(order))

RECURSIVE StringMembersAbort(_, _)
\* StringMembers leaving the loop at the first entry NewMember rejects.
StringMembersAbort(entries, order) ==
    IF order = <<>> THEN <<>>
    ELSE LET m == NewMember(sentryPrefix \o Head(order), entries[Head(order)])
         IN  IF m.ok THEN m.member \o StringMembersAbort(entries, Tail(order))
             ELSE <<>>

RECURSIVE StringMembers(_, _)
\* The loop of String over d.Entries, visited in the given order: an entry
\* NewMember rejects is skipped.
StringMembers(entries, order) ==
    IF order = <<>> THEN <<>>
    ELSE LET m == NewMember(sentryPrefix \o Head(order), entries[Head(order)])
         IN  (IF m.ok THEN m.member ELSE <<>>) \o StringMembers(entries, Tail(order))

\* DynamicSamplingContext.String; order is the order in which the Go runtime
\* iterates over the map d.Entries.
String(d, order) ==
    LET members == StringMembers(d.Entries, order)
    IN  IF Len(members) > 0
        THEN LET baggage == New(members)
             IN  IF ~baggage.ok THEN <<>> ELSE BaggageString(baggage.members)
        ELSE <<>>

HasEntries(d) == Cardinality(DOMAIN d.Entries) > 0

IsFrozen(d) == d.Frozen

(***************************************************************************)
(* State.                                                                  *)
(***************************************************************************)
VARIABLES
    op,             \* the DSC operation that ran last, "idle" before the first
    header,         \* the header DynamicSamplingContextFromHeader was given
    span,           \* the span DynamicSamplingContextFromTransaction was given
    hub,            \* the scope and the client the constructor was given
    dsc,            \* the DynamicSamplingContext constructed
    err,            \* whether the constructor returned an error
    out,            \* the header dsc.String() returned
    back,           \* the DSC a receiver read from out
    backErr,        \* whether reading out returned an error
    sentrySpanMap,  \* the registry: otel span id -> sentry span
    spanOwner,      \* history: spanOwner[s] is the id span s was registered under
    pc,             \* per request: "idle", "invoked" or "served"
    reqCtx,         \* per request: the context of the inbound request
    registered,     \* history, per request: its otel span id was registered
                    \* when the middleware was invoked
    handled         \* per request: the context the downstream handler got

dscVars == <<op, header, span, hub, dsc, err, out, back, backErr>>

otelVars == <<sentrySpanMap, spanOwner, pc, reqCtx, registered, handled>>

vars == <<op, header, span, hub, dsc, err, out, back, backErr,
          sentrySpanMap, spanOwner, pc, reqCtx, registered, handled>>

(***************************************************************************)
(* Inputs of the DSC operations.                                           *)
(***************************************************************************)
HeaderKeys ==
    { sentryPrefix \o <<"a">>,
      sentryPrefix \o <<"b">>,
      <<"a">>,
      sentryPrefix,
      sentryPrefix \o sentryPrefix \o <<"a">>,
      <<"s", "e", "n", "t", "r", "y", "a">>,
      <<"s", "e", "n", "t", "r", "y", "%", "2", "D", "a">> }

HeaderValues == { <<"1">>, <<"%", "2", "0">> }

\* Well-formed segments, and segments the codec rejects or has to trim: no "=",
\* an empty key, a cut escape, surrounding blanks with a property.
Segments ==
    { k \o <<"=">> \o v : k \in HeaderKeys, v \in HeaderValues }
        \cup { <<"a">>,
               <<"=", "1">>,
               <<"a", "=", "%", "2">>,
               <<" ">> \o sentryPrefix \o <<"b", "=", ";", " ", "p", " ">> }

RECURSIVE JoinComma(_)
JoinComma(segs) ==
    IF segs = <<>> THEN <<>>
    ELSE IF Len(segs) = 1 THEN segs[1]
    ELSE segs[1] \o <<",">> \o JoinComma(Tail(segs))

Headers == { JoinComma(s) : s \in UNION { [1..n -> Segments] : n \in 0..MaxMembers } }

\* Keys and values of a DynamicSamplingContext literal: one key NewMember
\* rejects, and more acceptable keys than one document holds.
EntryKeys == { <<"a">>, <<"b", "=">>, <<>>, sentryPrefix \o <<"a">>, <<"a", "SOH">> }

EntryValues == { <<"1">>, <<" ", "%", "2", "0", ",">> }

TraceIDs == { <<>>, <<"4", "c">> }

SampleRates == { 0, 25, 100 }

Sources == { "", SourceURL, SourceCustom }

Names == { <<>>, <<"G", "E", "T", " ", "/">> }

Spans ==
    [ TraceID : TraceIDs, sampleRate : SampleRates, Source : Sources,
      isTransaction : BOOLEAN, Name : Names,
      Sampled : {SampledFalse, SampledUndefined, SampledTrue} ]

NilDsn == [nil |-> TRUE, publicKey |-> <<>>]

Dsns == { NilDsn } \cup [ nil : {FALSE}, publicKey : { <<>>, <<"a", "b", "c">> } ]

NilClient ==
    [ nil |-> TRUE, dsn |-> NilDsn, Release |-> <<>>, Environment |-> <<>>,
      TracesSampleRate |-> 0 ]

Clients ==
    { NilClient }
        \cup [ nil : {FALSE}, dsn : Dsns, Release : { <<>>, <<"1", ".", "2">> },
               Environment : { <<>>, <<"t", "e", "s", "t">> },
               TracesSampleRate : { 0, 50 } ]

NilScope == [nil |-> TRUE, TraceID |-> <<>>]

Scopes == { NilScope } \cup [ nil : {FALSE}, TraceID : TraceIDs ]

NoSpan ==
    [ TraceID |-> <<>>, sampleRate |-> 0, Source |-> "", isTransaction |-> FALSE,
      Name |-> <<>>, Sampled |-> SampledUndefined ]

NoHub == [scope |-> NilScope, client |-> NilClient]

\* The orders in which a map with key set S can be iterated.
Orders(S) ==
    { o \in [1..Cardinality(S) -> S] : \A i, j \in 1..Cardinality(S) : i # j => o[i] # o[j] }

(***************************************************************************)
(* Inputs of the middleware.                                               *)
(***************************************************************************)
SpanIDs == { "X", "Y" }

Requests == 1..MaxRequests

\* A *sentry.Span: nil, a span started outside the registry, or the n-th span
\* the span-starting code registered.
NoSentrySpan == [kind |-> "nil", n |-> 0]

AmbientSpan == [kind |-> "ambient", n |-> 0]

RegisteredSpan(n) == [kind |-> "registered", n |-> n]

\* The otel span of a context: none, or one with an id and a recording flag.
\* The span id of no span is the zero id, which is never registered.
NoOtelSpan == [nil |-> TRUE, spanID |-> "0", recording |-> FALSE]

OtelSpans == { NoOtelSpan } \cup [ nil : {FALSE}, spanID : SpanIDs, recording : BOOLEAN ]

\* The context of an inbound request: its otel span and its sentry span.
Contexts == [ otel : OtelSpans, sentry : {NoSentrySpan, AmbientSpan} ]

NoContext == [otel |-> NoOtelSpan, sentry |-> NoSentrySpan]

Init ==
    /\ op = "idle"
    /\ header = <<>>
    /\ span = NoSpan
    /\ hub = NoHub
    /\ dsc = DSC(EmptyMap, FALSE)
    /\ err = FALSE
    /\ out = <<>>
    /\ back = DSC(EmptyMap, FALSE)
    /\ backErr = FALSE
    /\ sentrySpanMap = EmptyMap
    /\ spanOwner = <<>>
    /\ pc = [r \in Requests |-> "idle"]
    /\ reqCtx = [r \in Requests |-> NoContext]
    /\ registered = [r \in Requests |-> FALSE]
    /\ handled = [r \in Requests |-> NoContext]

(***************************************************************************)
(* DSC operations.                                                         *)
(***************************************************************************)
\* A caller builds a DynamicSamplingContext value directly.
NewDSC ==
    /\ op = "idle"
    /\ \E keys \in SUBSET EntryKeys, frozen \in BOOLEAN :
         \E entries \in [keys -> EntryValues] :
            dsc' = DSC(entries, frozen)
    /\ op' = "NewDSC"
    /\ UNCHANGED <<header, span, hub, err, out, back, backErr>>
    /\ UNCHANGED otelVars

FromHeader ==
    /\ op = "idle"
    /\ \E h \in Headers :
         /\ header' = h
         /\ dsc' = DynamicSamplingContextFromHeader(h).dsc
         /\ err' = DynamicSamplingContextFromHeader(h).err
    /\ op' = "FromHeader"
    /\ UNCHANGED <<span, hub, out, back, backErr>>
    /\ UNCHANGED otelVars

FromTransaction ==
    /\ op = "idle"
    /\ \E s \in Spans, sc \in Scopes, c \in Clients :
         /\ span' = s
         /\ hub' = [scope |-> sc, client |-> c]
         /\ dsc' = DynamicSamplingContextFromTransaction(s, [scope |-> sc, client |-> c])
    /\ op' = "FromTransaction"
    /\ UNCHANGED <<header, err, out, back, backErr>>
    /\ UNCHANGED otelVars

FromScope ==
    /\ op = "idle"
    /\ \E sc \in Scopes, c \in Clients :
         /\ hub' = [scope |-> sc, client |-> c]
         /\ dsc' = DynamicSamplingContextFromScope(sc, c)
    /\ op' = "FromScope"
    /\ UNCHANGED <<header, span, err, out, back, backErr>>
    /\ UNCHANGED otelVars

\* dsc.String(), for a context built directly or read from a header.
CallString ==
    /\ op \in {"NewDSC", "FromHeader"}
    /\ \E order \in Orders(DOMAIN dsc.Entries) :
         out' = String(dsc, order)
    /\ op' = "String"
    /\ UNCHANGED <<header, span, hub, dsc, err, back, backErr>>
    /\ UNCHANGED otelVars

\* The receiver of the header reads it with DynamicSamplingContextFromHeader.
ReadBack ==
    /\ op = "String"
    /\ back' = DynamicSamplingContextFromHeader(out).dsc
    /\ backErr' = DynamicSamplingContextFromHeader(out).err
    /\ op' = "ReadBack"
    /\ UNCHANGED <<header, span, hub, dsc, err, out>>
    /\ UNCHANGED otelVars

Next == NewDSC \/ FromHeader \/ FromTransaction \/ FromScope \/ CallString \/ ReadBack

Spec == Init /\ [][Next]_vars

(***************************************************************************)
(* The span registry and the continuation middleware.                      *)
(***************************************************************************)
\* sentrySpanMap.Get: [ok, span]
Get(m, id) ==
    [ok |-> id \in DOMAIN m, span |-> IF id \in DOMAIN m THEN m[id] ELSE NoSentrySpan]

\* sentrySpanMap.Set
Put(m, id, s) == MapSet(m, id, s)

\* trace.SpanFromContext: the span of the context; without one, a span that
\* is not nil and does not record.
SpanFromContext(ctx) ==
    IF ctx.otel.nil THEN [nil |-> FALSE, spanID |-> ctx.otel.spanID, recording |-> FALSE]
    ELSE ctx.otel

\* sentry.SpanToContext
SpanToContext(ctx, s) == [ctx EXCEPT !.sentry = s]

\* ContinuedContext with the result of r.WithContext dropped.
ContinuedContextDropped(ctx, m) == ctx

\* ContinuedContext without the test of IsRecording.
ContinuedContextAnySpan(ctx, m) ==
    LET otelTrace == SpanFromContext(ctx)
    IN  IF ~otelTrace.nil
        THEN LET g == Get(m, otelTrace.spanID)
             IN  IF g.ok THEN SpanToContext(ctx, g.span) ELSE ctx
        ELSE ctx

\* ContinuedContext looking up some registered id instead of the span's own.
ContinuedContextAnyID(ctx, m) ==
    LET otelTrace == SpanFromContext(ctx)
    IN  IF ~otelTrace.nil /\ otelTrace.recording /\ DOMAIN m # {}
        THEN SpanToContext(ctx, Get(m, CHOOSE id \in DOMAIN m : id # otelTrace.spanID
                                                  \/ DOMAIN m = {otelTrace.spanID}).span)
        ELSE ctx

\* The context ContinueFromOtel hands to next.ServeHTTP, given the context of
\* the inbound request and the registry.
ContinuedContext(ctx, m) ==
    LET otelTrace == SpanFromContext(ctx)
    IN  IF ~otelTrace.nil /\ otelTrace.recording
        THEN LET g == Get(m, otelTrace.spanID)
             IN  IF g.ok THEN SpanToContext(ctx, g.span) ELSE ctx
        ELSE ctx

\* The span-starting code registers a new sentry span under an otel span id.
StartSpan(id) ==
    /\ Len(spanOwner) < MaxSpans
    /\ sentrySpanMap' = Put(sentrySpanMap, id, RegisteredSpan(Len(spanOwner) + 1))
    /\ spanOwner' = Append(spanOwner, id)
    /\ UNCHANGED <<pc, reqCtx, registered, handled>>
    /\ UNCHANGED dscVars

\* The server calls the handler ContinueFromOtel returned with a request.
Invoke(r, ctx) ==
    /\ pc[r] = "idle"
    /\ pc' = [pc EXCEPT ![r] = "invoked"]
    /\ reqCtx' = [reqCtx EXCEPT ![r] = ctx]
    /\ registered' = [registered EXCEPT
                        ![r] = ~ctx.otel.nil /\ ctx.otel.spanID \in DOMAIN sentrySpanMap]
    /\ UNCHANGED <<sentrySpanMap, spanOwner, handled>>
    /\ UNCHANGED dscVars

\* The body of the handler: the lookup, and the call of next.ServeHTTP.
ContinueFromOtel(r) ==
    /\ pc[r] = "invoked"
    /\ pc' = [pc EXCEPT ![r] = "served"]
    /\ handled' = [handled EXCEPT ![r] = ContinuedContext(reqCtx[r], sentrySpanMap)]
    /\ UNCHANGED <<sentrySpanMap, spanOwner, reqCtx, registered>>
    /\ UNCHANGED dscVars

\* next.ServeHTTP returns, and with it the handler.
HandlerReturn(r) ==
    /\ pc[r] = "served"
    /\ pc' = [pc EXCEPT ![r] = "idle"]
    /\ reqCtx' = [reqCtx EXCEPT ![r] = NoContext]
    /\ registered' = [registered EXCEPT ![r] = FALSE]
    /\ handled' = [handled EXCEPT ![r] = NoContext]
    /\ UNCHANGED <<sentrySpanMap, spanOwner>>
    /\ UNCHANGED dscVars

NextOtel ==
    \/ \E id \in SpanIDs : StartSpan(id)
    \/ \E r \in Requests, ctx \in Contexts : Invoke(r, ctx)
    \/ \E r \in Requests : ContinueFromOtel(r)
    \/ \E r \in Requests : HandlerReturn(r)

SpecOtel == Init /\ [][NextOtel]_vars

(***************************************************************************)
(* Properties of DynamicSamplingContextFromHeader.                         *)
(***************************************************************************)
\* The calls of DynamicSamplingContextFromHeader the state records: the
\* header given, the DSC and the error returned.
FromHeaderCalls ==
    IF op = "FromHeader" THEN { [h |-> header, d |-> dsc, e |-> err] }
    ELSE IF op = "ReadBack" THEN { [h |-> out, d |-> back, e |-> backErr] }
    ELSE {}

\* The keys of the members of a header.
MemberKeys(h) == { Parse(h).members[i].key : i \in 1..Len(Parse(h).members) }

\* Those that start with "sentry-".
SentryMemberKeys(h) == { k \in MemberKeys(h) : HasPrefix(k, sentryPrefix) }

\* C3 (freeze-on-receipt): for every header that parses, the DSC
\* DynamicSamplingContextFromHeader returns is frozen if the header has at
\* least one member whose key starts with "sentry-", and not frozen if it has
\* none, whatever other members it carries.
C3_FreezeOnReceipt ==
    \A c \in FromHeaderCalls :
        ~c.e => (c.d.Frozen <=> SentryMemberKeys(c.h) # {})

\* A header with a sentry member and a foreign member was read, and the DSC
\* is frozen.
C3_Witness ==
    /\ op = "FromHeader"
    /\ ~err
    /\ dsc.Frozen
    /\ SentryMemberKeys(header) # {}
    /\ MemberKeys(header) \ SentryMemberKeys(header) # {}

\* C4 (namespace filtering): for every header that parses, the keys of
\* Entries are exactly the distinct "sentry-" member keys with the prefix
\* taken off, one each, and no key of Entries comes from a member without the
\* prefix.
C4_NamespaceFiltering ==
    \A c \in FromHeaderCalls :
        ~c.e =>
            /\ \A k \in SentryMemberKeys(c.h) :
                 \E e \in DOMAIN c.d.Entries : sentryPrefix \o e = k
            /\ \A e \in DOMAIN c.d.Entries : sentryPrefix \o e \in SentryMemberKeys(c.h)
            /\ Cardinality(DOMAIN c.d.Entries) = Cardinality(SentryMemberKeys(c.h))

\* The header carried the member "a" and the member "sentry-sentry-a": the
\* one entry is "sentry-a".
C4_Witness ==
    /\ op = "FromHeader"
    /\ ~err
    /\ MemberKeys(header) = { <<"a">>, sentryPrefix \o sentryPrefix \o <<"a">> }
    /\ DOMAIN dsc.Entries = { sentryPrefix \o <<"a">> }

(***************************************************************************)
(* Properties of String.                                                   *)
(***************************************************************************)
\* The keys of the entries of d that NewMember accepts once prefixed.
AcceptedKeys(d) ==
    { k \in DOMAIN d.Entries : NewMember(sentryPrefix \o k, d.Entries[k]).ok }

\* The members of a header, as pairs of key and value.
MemberPairs(h) ==
    { <<Parse(h).members[i].key, Parse(h).members[i].value>> :
        i \in 1..Len(Parse(h).members) }

\* C5 as claimed (round trip): for any DSC with non-empty Entries, reading
\* the header String returns succeeds and gives a DSC with the same Entries
\* and Frozen true.
C5_RoundTripAnyEntries ==
    (op = "ReadBack" /\ DOMAIN dsc.Entries # {}) =>
        ~backErr /\ back.Entries = dsc.Entries /\ back.Frozen

\* C5 as amended: for any DSC with non-empty Entries all of which NewMember
\* accepts and which fit into one document, reading the header String returns
\* succeeds and gives a DSC with the same Entries and Frozen true.
C5_RoundTrip ==
    (/\ op = "ReadBack"
     /\ DOMAIN dsc.Entries # {}
     /\ AcceptedKeys(dsc) = DOMAIN dsc.Entries
     /\ Cardinality(DOMAIN dsc.Entries) <= maxMembers) =>
        ~backErr /\ back.Entries = dsc.Entries /\ back.Frozen

\* An unfrozen DSC with two entries, one with the empty key and a value that
\* needs encoding, came back frozen and equal.
C5_Witness ==
    /\ op = "ReadBack"
    /\ ~dsc.Frozen
    /\ DOMAIN dsc.Entries = { <<>>, <<"b", "=">> }
    /\ dsc.Entries[<<>>] = <<" ", "%", "2", "0", ",">>
    /\ back.Entries = dsc.Entries
    /\ back.Frozen
    /\ ~backErr

\* C9 (best-effort serialisation): String returns the empty string when no
\* entry is accepted by NewMember or the accepted ones do not fit into one
\* document; otherwise it returns a header whose members are exactly the
\* accepted entries under their "sentry-" keys: a rejected entry does not
\* suppress the others.
C9_BestEffortString ==
    op \in {"String", "ReadBack"} =>
        IF AcceptedKeys(dsc) = {} \/ Cardinality(AcceptedKeys(dsc)) > maxMembers
        THEN out = <<>>
        ELSE /\ Parse(out).ok
             /\ MemberPairs(out) =
                    { <<sentryPrefix \o k, dsc.Entries[k]>> : k \in AcceptedKeys(dsc) }

\* A DSC with a rejected entry and two accepted ones was serialised to a
\* header with two members.
C9_Witness ==
    /\ op = "String"
    /\ DOMAIN dsc.Entries \ AcceptedKeys(dsc) # {}
    /\ Cardinality(AcceptedKeys(dsc)) = 2
    /\ Cardinality(MemberPairs(out)) = 2

(***************************************************************************)
(* Properties of DynamicSamplingContextFromTransaction and                 *)
(* DynamicSamplingContextFromScope.                                        *)
(***************************************************************************)
\* C6 (empty-input safety): with the client or the scope absent, both
\* constructors return no entries and Frozen false, whatever the span and the
\* one of client and scope that is present carry.
C6_EmptyInputSafety ==
    (op \in {"FromTransaction", "FromScope"} /\ (hub.client.nil \/ hub.scope.nil)) =>
        DOMAIN dsc.Entries = {} /\ ~dsc.Frozen /\ ~err

\* A span with a trace id, a sample rate and a decision, a scope with a trace
\* id, no client: nothing is returned.
C6_Witness ==
    /\ op = "FromTransaction"
    /\ hub.client.nil
    /\ ~hub.scope.nil
    /\ hub.scope.TraceID # <<>>
    /\ span.TraceID # <<>>
    /\ span.sampleRate # 0
    /\ span.Sampled = SampledTrue
    /\ DOMAIN dsc.Entries = {}
    /\ ~dsc.Frozen

\* C7 (URL-derived name suppression): the DSC of a span has a transaction
\* entry only if the span is the transaction and its source is not
\* SourceURL; a span whose source is SourceURL never yields one.
C7_URLNameSuppression ==
    op = "FromTransaction" =>
        (K_transaction \in DOMAIN dsc.Entries =>
            span.isTransaction /\ span.Source # SourceURL)

\* A transaction with a name, source SourceURL, client and scope present:
\* the DSC is frozen and has no transaction entry.
C7_Witness ==
    /\ op = "FromTransaction"
    /\ ~hub.client.nil
    /\ ~hub.scope.nil
    /\ span.isTransaction
    /\ span.Source = SourceURL
    /\ span.Name # <<>>
    /\ dsc.Frozen
    /\ K_transaction \notin DOMAIN dsc.Entries

\* A transaction with every source value of the DSC set.
FullyPopulated ==
    /\ op = "FromTransaction"
    /\ ~hub.client.nil
    /\ ~hub.scope.nil
    /\ span.isTransaction
    /\ span.TraceID # <<>>
    /\ span.sampleRate # 0
    /\ ~hub.client.dsn.nil
    /\ hub.client.dsn.publicKey # <<>>
    /\ hub.client.Release # <<>>
    /\ hub.client.Environment # <<>>

\* The seven entries, the name and the decision among them.
SevenEntries ==
    /\ dsc.Frozen
    /\ DOMAIN dsc.Entries =
         { K_trace_id, K_sample_rate, K_public_key, K_release, K_environment,
           K_transaction, K_sampled }
    /\ dsc.Entries[K_transaction] = span.Name
    /\ dsc.Entries[K_sampled] =
         (IF span.Sampled = SampledTrue THEN <<"t", "r", "u", "e">>
          ELSE <<"f", "a", "l", "s", "e">>)
    /\ dsc.Entries[K_trace_id] = span.TraceID
    /\ dsc.Entries[K_public_key] = hub.client.dsn.publicKey
    /\ dsc.Entries[K_release] = hub.client.Release
    /\ dsc.Entries[K_environment] = hub.client.Environment

\* C8 as claimed (full population): a fully populated transaction whose
\* source is not SourceURL, the unset source included, yields a frozen DSC
\* with exactly the seven entries.
C8_FullPopulationAnySource ==
    (FullyPopulated /\ span.Source # SourceURL) => SevenEntries

\* C8 as amended: a fully populated transaction whose source is set and is
\* not SourceURL yields a frozen DSC with exactly the seven entries.
C8_FullPopulation ==
    (FullyPopulated /\ span.Source # "" /\ span.Source # SourceURL) => SevenEntries

\* The transaction "GET /" of source custom, sampled, rate 1.
C8_Witness ==
    /\ FullyPopulated
    /\ span.Source = SourceCustom
    /\ span.Name = <<"G", "E", "T", " ", "/">>
    /\ span.Sampled = SampledTrue
    /\ span.sampleRate = 100
    /\ dsc.Entries[K_sample_rate] = <<"1">>
    /\ SevenEntries

(***************************************************************************)
(* Properties of ContinueFromOtel.                                         *)
(***************************************************************************)
\* Request r takes the step of the handler's body.
Continues(r) == pc[r] = "invoked" /\ pc'[r] = "served"

\* The context of request r carries a recording otel span.
Recording(r) == ~reqCtx[r].otel.nil /\ reqCtx[r].otel.recording

\* C1 (registry substitution): when the handler runs for a request whose
\* context carries a recording otel span with id X and the registry maps X to
\* S, the context the downstream handler gets has S as its sentry span.
C1_RegistrySubstitution ==
    [][\A r \in Requests :
          (/\ Continues(r)
           /\ Recording(r)
           /\ reqCtx[r].otel.spanID \in DOMAIN sentrySpanMap) =>
              handled'[r].sentry = sentrySpanMap[reqCtx[r].otel.spanID]]_vars

\* A request that came with an ambient sentry span and a recording otel span
\* was served with the registered span.
C1_Witness ==
    \E r \in Requests :
        /\ pc[r] = "served"
        /\ Recording(r)
        /\ reqCtx[r].sentry = AmbientSpan
        /\ reqCtx[r].otel.spanID \in DOMAIN sentrySpanMap
        /\ handled[r].sentry = sentrySpanMap[reqCtx[r].otel.spanID]
        /\ handled[r].sentry.kind = "registered"

\* C2 (pass-through): when the context carries no otel span, or one that is
\* not recording, or one whose id the registry does not hold, the downstream
\* handler gets the inbound context as it was.
C2_PassThrough ==
    [][\A r \in Requests :
          (/\ Continues(r)
           /\ \/ ~Recording(r)
              \/ reqCtx[r].otel.spanID \notin DOMAIN sentrySpanMap) =>
              handled'[r] = reqCtx[r]]_vars

\* A request with an ambient sentry span and an otel span that is registered
\* but not recording was served with the ambient span.
C2_Witness ==
    \E r \in Requests :
        /\ pc[r] = "served"
        /\ ~reqCtx[r].otel.nil
        /\ ~reqCtx[r].otel.recording
        /\ reqCtx[r].otel.spanID \in DOMAIN sentrySpanMap
        /\ reqCtx[r].sentry = AmbientSpan
        /\ handled[r] = reqCtx[r]

\* The span handed to a served request with a recording otel span is, if it
\* is a registered one, one registered under the request's own id; and it is
\* a registered one if the id was registered when the handler was invoked.
C10_OwnSpan ==
    \A r \in Requests :
        (pc[r] = "served" /\ Recording(r)) =>
            /\ registered[r] => handled[r].sentry.kind = "registered"
            /\ handled[r].sentry.kind = "registered" =>
                 spanOwner[handled[r].sentry.n] = reqCtx[r].otel.spanID

\* C10 (visibility and isolation): a registration that completed before the
\* handler was invoked is seen by its lookup; the span handed downstream is
\* one registered under the request's own id, never one registered under
\* another id by a concurrent request; and the handler's step leaves the
\* registry as it is.
C10_VisibilityIsolation ==
    /\ []C10_OwnSpan
    /\ [][\A r \in Requests : Continues(r) => sentrySpanMap' = sentrySpanMap]_vars

\* Two requests with different recording otel spans are both served, each
\* with the span registered under its id; one of the registrations completed
\* only after its request's handler was invoked.
C10_Witness ==
    \E r1, r2 \in Requests :
        /\ pc[r1] = "served" /\ pc[r2] = "served"
        /\ Recording(r1) /\ Recording(r2)
        /\ reqCtx[r1].otel.spanID # reqCtx[r2].otel.spanID
        /\ registered[r1] /\ ~registered[r2]
        /\ handled[r1].sentry.kind = "registered"
        /\ handled[r2].sentry.kind = "registered"
        /\ spanOwner[handled[r1].sentry.n] = reqCtx[r1].otel.spanID
        /\ spanOwner[handled[r2].sentry.n] = reqCtx[r2].otel.spanID

====
